---- MODULE Spec2Model ----
(***************************************************************************)
(* Library_Archi: the borrow-request lifecycle (LibraryFacade), the book   *)
(* catalogue (BookService behind BookServiceProxy), the borrowings         *)
(* collection (BorrowingService) and the watchlist (WatchlistService).     *)
(*                                                                         *)
(* Every facade method is an async function: it runs up to its next        *)
(* `await` on a storage call, and calls made by different HTTP requests    *)
(* interleave at those points.  A call is therefore a process whose steps  *)
(* are the storage reads and writes, each atomic, in the order of the      *)
(* code.                                                                   *)
(***************************************************************************)
EXTENDS Integers, Sequences, FiniteSets, TLC

\* ------------------------------------------------------------------ bounds
NumBooks == 1
NumMembers == 2
MaxCopies == 1
MaxRequests == 2
MaxNow == 1
MaxWatch == 2
MaxScans == 2
MaxHalfDays == 12
MaxTimers == 2
MaxNotifications == 3

\* --------------------------------------------------------------- constants
\* null / undefined of the JavaScript code
Null == -1
\* NaN, the result of new Date(<malformed string>).getTime()
NaN == -2
\* durationInDays of reviewRequest
LoanDays == 14
\* a day in milliseconds, the unit of Date.now() and of the stored dates
DayMs == 24 * 60 * 60 * 1000
\* a returnDueDate string that is not a date
Malformed == -3

Books == 1..NumBooks
Members == 1..NumMembers
\* the calls in progress at a time: two, every race here is between two calls
Procs == {"w1", "w2"}
\* the values Date.now() returns
Times == 1..MaxNow
\* an identifier that names no stored document
UnknownId == 0

Roles == {"Member", "Librarian", "Admin"}
Statuses == {"pending", "approved", "rejected", "returned"}

VARIABLES
  books,          \* collection 'books': id -> document
  borrowings,     \* collection 'borrowings': sequence of documents, id = index
  watchlist,      \* collection 'watchlist': sequence of [userId, bookId] entries
  notifications,  \* collection 'notifications': set of documents
  proc,           \* the calls in progress: locals and position of each
  job,            \* the DueDateCheckerJob singleton: isRunning, interval, ...
  timers,         \* the interval timers the event loop holds
  scans,          \* the checkDueDates calls: locals and position of each
  observers,      \* NotificationSubject.observers: type -> set of observers
  dispatch        \* the notify call in progress and the promises it started

vars == <<books, borrowings, watchlist, notifications, proc,
          job, timers, scans, observers, dispatch>>

\* the state of the scanner and of the notification subject
background == <<job, timers, scans, observers, dispatch>>

\* the state of the catalogue, the requests and the calls on them
library == <<books, borrowings, watchlist, proc>>

\* ------------------------------------------------------------- Book model
\* a Book constructor that takes a counter of 0 for available
BookIsAvailable_ZeroAvailable(availableQuantity) == availableQuantity >= 0

\* Book constructor: isAvailable is computed from the counter, the stored
\* isAvailable field of the document is not read.
BookIsAvailable(availableQuantity) == availableQuantity > 0

\* BookService.addBook: the document written for a new book
NewBookData(totalQuantity) ==
  [totalQuantity |-> totalQuantity,
   availableQuantity |-> totalQuantity,
   isAvailable |-> TRUE]

\* BookService.findBookById: the Book built from the stored document
FindBookById(bookId) ==
  IF bookId \in DOMAIN books
    THEN [found |-> TRUE,
          totalQuantity |-> books[bookId].totalQuantity,
          availableQuantity |-> books[bookId].availableQuantity,
          isAvailable |-> BookIsAvailable(books[bookId].availableQuantity)]
    ELSE [found |-> FALSE, totalQuantity |-> Null,
          availableQuantity |-> Null, isAvailable |-> FALSE]

\* BookService.updateBook: the fields of updateData overwrite those of the
\* stored document, every other field is kept.
UpdateBook(doc, updateData) ==
  [f \in DOMAIN doc |-> IF f \in DOMAIN updateData THEN updateData[f] ELSE doc[f]]

\* an approval that takes a copy, where the return gives none back
ApproveBookUpdate_Decrement(doc) ==
  [isAvailable |-> FALSE, availableQuantity |-> doc.availableQuantity - 1]

\* updateData passed by reviewRequest (approve) to updateBook
ApproveBookUpdate(doc) == [isAvailable |-> FALSE]

\* a return that gives a copy back, where the approval took none
ReturnBookUpdate_Increment(doc) ==
  [isAvailable |-> TRUE, availableQuantity |-> doc.availableQuantity + 1]

\* updateData passed by returnBook to updateBook
ReturnBookUpdate(doc) == [isAvailable |-> TRUE]

\* BookServiceProxy._isAuthorized
IsAuthorized(role) == role = "Admin" \/ role = "Librarian"

\* -------------------------------------------------------- Borrowing model
\* BorrowingService.createBorrowingRequest: the document written
NewBorrowingData(userId, bookId) ==
  [userId |-> userId, bookId |-> bookId, status |-> "pending",
   approvalDate |-> Null, dueDate |-> Null, returnDate |-> Null]

\* a query that filters on the wrong status
HasPendingRequestForBook_WrongStatus(userId, bookId) ==
  \E r \in DOMAIN borrowings :
    /\ borrowings[r].userId = userId
    /\ borrowings[r].bookId = bookId
    /\ borrowings[r].status = "approved"

\* BorrowingService.hasPendingRequestForBook
HasPendingRequestForBook(userId, bookId) ==
  \E r \in DOMAIN borrowings :
    /\ borrowings[r].userId = userId
    /\ borrowings[r].bookId = bookId
    /\ borrowings[r].status = "pending"

\* reviewRequest, step 2: the request is still waiting for a review
CanBeReviewed(status) == status = "pending"

\* a test that only refuses the requests not yet reviewed
CanBeReturned_NotPending(status) == status # "pending"

\* returnBook, step 2: the request is a loan in progress
CanBeReturned(status) == status = "approved"

\* BorrowingService.updateRequest: Firestore update of the named fields
UpdateRequest(requestId, updateData) ==
  [borrowings EXCEPT ![requestId] =
     [f \in DOMAIN @ |-> IF f \in DOMAIN updateData THEN updateData[f] ELSE @[f]]]

\* new Date(returnDueDate).getTime(): a well-formed date string gives its
\* timestamp, a malformed one gives NaN
ParseDate(returnDueDate) ==
  IF returnDueDate \in Times THEN returnDueDate ELSE NaN

\* an approval that always gives the default duration
ComputeDueDate_IgnoresSupplied(approvalDate, returnDueDate) ==
  approvalDate + LoanDays * DayMs

\* reviewRequest, step 3b: the due date of an approval
ComputeDueDate(approvalDate, returnDueDate) ==
  IF returnDueDate # Null
    THEN ParseDate(returnDueDate)
    ELSE approvalDate + LoanDays * DayMs

\* -------------------------------------------------------------- processes
\* the locals of a call that has not started
IdleProc ==
  [pc |-> "idle", call |-> "none", role |-> "none", userId |-> Null,
   bookId |-> Null, requestId |-> Null, returnDueDate |-> Null,
   availableQuantity |-> Null, approvalDate |-> Null, dueDate |-> Null,
   returnDate |-> Null, notificationId |-> Null, batch |-> {},
   result |-> "none"]

\* a call may start on a worker that runs no call
Free(p) == proc[p].pc \in {"idle", "done"}

\* the record of a call that has ended: it returned (result "ok") or threw
\* (the error); its other locals are gone
Done(call, requestId, result) ==
  [IdleProc EXCEPT !.pc = "done", !.call = call, !.requestId = requestId,
                   !.result = result]

\* the call of p throws
Throw(p, error) ==
  proc' = [proc EXCEPT ![p] = Done(proc[p].call, proc[p].requestId, error)]

\* the call of p returns
Return(p) ==
  proc' = [proc EXCEPT ![p] = Done(proc[p].call, proc[p].requestId, "ok")]

\* the results of a call that returned: 'ok', or the action of a review
Success == {"ok", "approved", "rejected"}

\* the error kinds of the design that the thrown errors stand for
ConflictErrors ==
  {"DuplicatePending", "AlreadyProcessed", "BookJustBorrowed", "NotApproved"}

\* ------------------------------------------------------ DueDateCheckerJob
\* the checkDueDates calls that may run at a time
ScanIds == 1..MaxScans

\* the values new Date() returns in a scan: every half day of the period
ScanTimes == {h * (DayMs \div 2) : h \in 0..MaxHalfDays}

\* DueDateCheckerJob constructor
NewJob == [isRunning |-> FALSE, interval |-> Null, checkIntervalMs |-> DayMs]

\* a start that does not test isRunning
CanStart_Always(j) == TRUE

\* start: the test of isRunning
CanStart(j) == ~j.isRunning

\* setInterval: the handle of the new timer
SetInterval(t) == CHOOSE id \in 1..(Cardinality(t) + 1) : id \notin t

\* a stop that forgets the handle without cancelling the timer
ClearInterval_KeepsTimer(t, id) == t

\* clearInterval
ClearInterval(t, id) == t \ {id}

\* stop: the job and the timers after the call
StopJob(j, t) ==
  IF j.interval # Null
    THEN [job |-> [j EXCEPT !.interval = Null, !.isRunning = FALSE],
          timers |-> ClearInterval(t, j.interval)]
    ELSE [job |-> j, timers |-> t]

\* the locals of a checkDueDates call that has not started
IdleScan ==
  [pc |-> "idle", origin |-> "none", now |-> Null, loans |-> <<>>, i |-> 0,
   events |-> <<>>, resolved |-> {}, failed |-> {}, aborted |-> FALSE]

FreeScan(s) == scans[s].pc \in {"idle", "done"}

\* new Date(loan.dueDate).getTime(): null is the epoch, NaN an invalid date
DueTime(dueDate) == IF dueDate = Null THEN 0 ELSE dueDate

\* now > dueDate; a comparison with an invalid date is false
IsOverdue(now, dueDate) ==
  DueTime(dueDate) # NaN /\ now > DueTime(dueDate)

\* Math.floor((now - dueDate) / day)
DaysOverdue(now, dueDate) == (now - DueTime(dueDate)) \div DayMs

\* Math.floor((dueDate - now) / day)
DaysDiff(now, dueDate) ==
  IF DueTime(dueDate) = NaN THEN NaN ELSE (DueTime(dueDate) - now) \div DayMs

\* a reminder window that stops one day short
IsReminderDue_OneDayShort(daysDiff) ==
  daysDiff # NaN /\ daysDiff < 2 /\ daysDiff >= 0

\* daysDiff <= 2 && daysDiff >= 0
IsReminderDue(daysDiff) ==
  daysDiff # NaN /\ daysDiff <= 2 /\ daysDiff >= 0

\* a scan that remembers: it emits nothing for a loan whose borrower already
\* has a notification of the type for the book
DueEvent_Deduplicated(now, loan) ==
  LET type == IF IsOverdue(now, loan.dueDate) THEN "OVERDUE"
              ELSE IF IsReminderDue(DaysDiff(now, loan.dueDate))
                THEN "DUE_DATE_REMINDER"
              ELSE "none"
      known == \E n \in notifications :
                 /\ n.type = type
                 /\ n.userId = loan.userId
                 /\ n.bookId = loan.bookId
  IN [type |-> IF known THEN "none" ELSE type,
      requestId |-> loan.id,
      daysOverdue |-> IF type = "OVERDUE" /\ ~known
                        THEN DaysOverdue(now, loan.dueDate) ELSE Null]

\* the event checkDueDates emits for a loan, "none" when it emits nothing
DueEvent(now, loan) ==
  IF IsOverdue(now, loan.dueDate)
    THEN [type |-> "OVERDUE", requestId |-> loan.id,
          daysOverdue |-> DaysOverdue(now, loan.dueDate)]
  ELSE IF IsReminderDue(DaysDiff(now, loan.dueDate))
    THEN [type |-> "DUE_DATE_REMINDER", requestId |-> loan.id,
          daysOverdue |-> Null]
  ELSE [type |-> "none", requestId |-> loan.id, daysOverdue |-> Null]

\* b.approvalDate || 0
SortKey(r) ==
  IF borrowings[r].approvalDate \in {Null, NaN} THEN 0
  ELSE borrowings[r].approvalDate

RECURSIVE SortByApprovalDate(_)
\* borrowings.sort((a, b) => b.approvalDate - a.approvalDate): the most
\* recent first, the order of the query among equals
SortByApprovalDate(ids) ==
  IF ids = {} THEN <<>>
  ELSE LET first == CHOOSE r \in ids :
                      \A q \in ids :
                        \/ SortKey(r) > SortKey(q)
                        \/ SortKey(r) = SortKey(q) /\ r <= q
       IN <<first>> \o SortByApprovalDate(ids \ {first})

\* BorrowingService.findBorrowingsByStatus
FindBorrowingsByStatus(status) ==
  LET ids == SortByApprovalDate(
               {r \in DOMAIN borrowings : borrowings[r].status = status})
  IN [k \in DOMAIN ids |->
        [id |-> ids[k], userId |-> borrowings[ids[k]].userId,
         bookId |-> borrowings[ids[k]].bookId,
         dueDate |-> borrowings[ids[k]].dueDate]]

\* the end of the loop body: the next loan, or the end of the scan
NextLoan(scan) ==
  IF scan.i < Len(scan.loans)
    THEN [scan EXCEPT !.pc = "lookup", !.i = scan.i + 1]
    ELSE [scan EXCEPT !.pc = "done"]

\* a scan with the outer try/catch only: an error ends it
OnLoanError_Abort(scan) == [scan EXCEPT !.pc = "done"]

\* the inner catch: the error is logged, the loop goes on
OnLoanError(scan) == NextLoan(scan)

\* the documents a call in progress has read and is about to write
HeldNotifications ==
  UNION {{proc[p].notificationId} \cup proc[p].batch :
           p \in {q \in Procs : ~Free(q)}}

\* collection.add(): the id of the new document, one that no document has
\* and that no call in progress refers to
NewNotificationId ==
  LET used == {n.id : n \in notifications} \cup HeldNotifications
  IN CHOOSE id \in 1..(Cardinality(used) + 1) :
       id \notin used /\ \A j \in 1..(id - 1) : j \in used

\* new Notification(null, type, message, userId, bookId, requestId, false)
\* with the id of its document
NewNotification(id, type, userId, bookId, requestId) ==
  [id |-> id, type |-> type, userId |-> userId, bookId |-> bookId,
   requestId |-> requestId, read |-> FALSE]

\* NotificationService.createNotification
CreateNotification(type, userId, bookId, requestId) ==
  notifications \cup
    {NewNotification(NewNotificationId, type, userId, bookId, requestId)}

\* docRef.get(): the documents with the id, none when !doc.exists
FindNotification(notificationId) ==
  {n \in notifications : n.id = notificationId}

\* a service that lets any user write any notification
IsRecipient_Anyone(doc, userId) == TRUE

\* data.userId === userId
IsRecipient(doc, userId) == doc.userId = userId

\* docRef.update({ read: true }) on the documents of ids
MarkRead(ids) ==
  {IF n.id \in ids THEN [n EXCEPT !.read = TRUE] ELSE n : n \in notifications}

\* --------------------------------------------------- NotificationSubject
\* Notification.Types
NotifTypes == {"DUE_DATE_REMINDER", "OVERDUE", "NEW_REQUEST", "BOOK_AVAILABLE"}

\* the observers of the application, whose update catches every error
AppObservers == {"dueDateReminderObserver", "overdueObserver"}

\* observers attached by other code: one whose update resolves, one that
\* keeps NotificationObserver.update (it throws), one whose promise rejects
OtherObservers == {"resolving", "throwing", "rejecting"}

\* what observer.update(data) does
Behaviour(observer) ==
  IF observer = "throwing" THEN "throws"
  ELSE IF observer = "rejecting" THEN "rejects"
  ELSE "resolves"

\* DueDateCheckerJob.initializeObservers on the new subject
InitializeObservers ==
  [t \in NotifTypes |->
     IF t = "DUE_DATE_REMINDER"
       THEN [has |-> TRUE, set |-> <<"dueDateReminderObserver">>]
     ELSE IF t = "OVERDUE"
       THEN [has |-> TRUE, set |-> <<"overdueObserver">>]
     ELSE [has |-> FALSE, set |-> <<>>]]

\* no notify call has been made
IdleDispatch ==
  [pc |-> "idle", type |-> "none", registered |-> <<>>, invoked |-> <<>>,
   pending |-> {}, completed |-> {}, userId |-> Null, bookId |-> Null]

\* the elements of a sequence
Range(seq) == {seq[k] : k \in DOMAIN seq}

\* the observers the loop of notify calls, in order: all of them, or those
\* up to the first whose update throws
InvokedBy(set) ==
  IF \E k \in DOMAIN set : Behaviour(set[k]) = "throws"
    THEN SubSeq(set, 1, CHOOSE k \in DOMAIN set :
                          /\ Behaviour(set[k]) = "throws"
                          /\ \A j \in 1..(k - 1) : Behaviour(set[j]) # "throws")
    ELSE set

\* the scanner and the subject once the modules are loaded: the job is
\* constructed (not started) and has attached its two observers
InitBackground ==
  /\ job = NewJob
  /\ timers = {}
  /\ scans = [s \in ScanIds |-> IdleScan]
  /\ observers = InitializeObservers
  /\ dispatch = IdleDispatch

Init ==
  /\ books \in [Books -> {NewBookData(t) : t \in 1..MaxCopies}]
  /\ borrowings = <<>>
  /\ watchlist = <<>>
  /\ notifications = {}
  /\ proc = [p \in Procs |-> IdleProc]
  /\ InitBackground

\* ------------------------------------------------ LibraryFacade.requestBook
\* steps 1-3: findUserById, findBookById, the availability test
RequestBook(p, userId, bookId) ==
  /\ Free(p)
  /\ LET book == FindBookById(bookId)
     IN proc' = [proc EXCEPT ![p] =
          IF userId \notin Members
            THEN Done("requestBook", Null, "UserNotFound")
          ELSE IF ~book.found
            THEN Done("requestBook", Null, "BookNotFound")
          ELSE IF ~book.isAvailable
            THEN Done("requestBook", Null, "BookUnavailable")
          ELSE [IdleProc EXCEPT !.pc = "rb_hasPending", !.call = "requestBook",
                                !.userId = userId, !.bookId = bookId]]
  /\ UNCHANGED <<books, borrowings, watchlist, notifications, background>>

\* step 4: hasPendingRequestForBook
RB_HasPending(p) ==
  /\ proc[p].pc = "rb_hasPending"
  /\ IF HasPendingRequestForBook(proc[p].userId, proc[p].bookId)
       THEN Throw(p, "DuplicatePending")
       ELSE proc' = [proc EXCEPT ![p].pc = "rb_create"]
  /\ UNCHANGED <<books, borrowings, watchlist, notifications, background>>

\* step 5: createBorrowingRequest
RB_Create(p) ==
  /\ proc[p].pc = "rb_create"
  /\ Len(borrowings) < MaxRequests
  /\ borrowings' = Append(borrowings,
                          NewBorrowingData(proc[p].userId, proc[p].bookId))
  /\ proc' = [proc EXCEPT ![p] = Done("requestBook", Null, "ok")]
  /\ UNCHANGED <<books, watchlist, notifications, background>>

\* ---------------------------------------------- LibraryFacade.reviewRequest
\* steps 1-2: the role test, findRequestById, the status test, the action
ReviewRequest(p, role, requestId, action, returnDueDate) ==
  /\ Free(p)
  /\ LET start == [IdleProc EXCEPT !.call = "reviewRequest", !.role = role,
                                   !.requestId = requestId]
     IN proc' = [proc EXCEPT ![p] =
          IF ~IsAuthorized(role)
            THEN Done("reviewRequest", Null, "AccessDenied")
          ELSE IF requestId \notin DOMAIN borrowings
            THEN Done("reviewRequest", Null, "RequestNotFound")
          ELSE IF ~CanBeReviewed(borrowings[requestId].status)
            THEN Done("reviewRequest", Null, "AlreadyProcessed")
          ELSE IF action = "reject"
            THEN [start EXCEPT !.pc = "rv_reject"]
          ELSE IF action = "approve"
            THEN [start EXCEPT !.pc = "rv_findBook",
                               !.bookId = borrowings[requestId].bookId,
                               !.returnDueDate = returnDueDate]
          ELSE Done("reviewRequest", Null, "InvalidAction")]
  /\ UNCHANGED <<books, borrowings, watchlist, notifications, background>>

\* step 3, reject: updateRequest(requestId, {status: 'rejected'})
RV_Reject(p) ==
  /\ proc[p].pc = "rv_reject"
  /\ borrowings' = UpdateRequest(proc[p].requestId, [status |-> "rejected"])
  /\ proc' = [proc EXCEPT ![p] = Done("reviewRequest", proc[p].requestId, "rejected")]
  /\ UNCHANGED <<books, watchlist, notifications, background>>

\* step 3a-3b, approve: findBookById, the availability test, the dates
RV_FindBook(p, now) ==
  /\ proc[p].pc = "rv_findBook"
  /\ LET book == FindBookById(proc[p].bookId)
     IN IF ~book.found
          THEN Throw(p, "BookNotFound")
        ELSE IF ~book.isAvailable
          THEN Throw(p, "BookJustBorrowed")
        ELSE proc' = [proc EXCEPT ![p].pc = "rv_updateRequest",
                        ![p].availableQuantity = book.availableQuantity,
                        ![p].approvalDate = now,
                        ![p].dueDate = ComputeDueDate(now, proc[p].returnDueDate)]
  /\ UNCHANGED <<books, borrowings, watchlist, notifications, background>>

\* step 3b, approve: updateRequest(requestId, {status: 'approved', ...})
RV_UpdateRequest(p) ==
  /\ proc[p].pc = "rv_updateRequest"
  /\ borrowings' = UpdateRequest(proc[p].requestId,
                     [status |-> "approved",
                      approvalDate |-> proc[p].approvalDate,
                      dueDate |-> proc[p].dueDate])
  /\ proc' = [proc EXCEPT ![p].pc = "rv_updateBook",
                          ![p].returnDueDate = Null,
                          ![p].approvalDate = Null, ![p].dueDate = Null]
  /\ UNCHANGED <<books, watchlist, notifications, background>>

\* step 3c, approve: updateBook(bookId, {isAvailable: false}, librarianUser);
\* the value returned keeps the book as it was read in step 3a
RV_UpdateBook(p) ==
  /\ proc[p].pc = "rv_updateBook"
  /\ IF ~IsAuthorized(proc[p].role)
       THEN /\ Throw(p, "AccessDenied")
            /\ UNCHANGED books
     ELSE IF proc[p].bookId \notin DOMAIN books
       THEN /\ Throw(p, "UpdateFailed")
            /\ UNCHANGED books
       ELSE /\ books' = [books EXCEPT ![proc[p].bookId] =
                           UpdateBook(@, ApproveBookUpdate(@))]
            /\ proc' = [proc EXCEPT ![p] =
                 [Done("reviewRequest", proc[p].requestId, "approved")
                    EXCEPT !.availableQuantity = proc[p].availableQuantity]]
  /\ UNCHANGED <<borrowings, watchlist, notifications, background>>

\* ------------------------------------------------- LibraryFacade.returnBook
\* steps 1-4: findRequestById, the status test, findBookById, Date.now()
ReturnBook(p, requestId, now) ==
  /\ Free(p)
  /\ proc' = [proc EXCEPT ![p] =
       IF requestId \notin DOMAIN borrowings
         THEN Done("returnBook", Null, "RequestNotFound")
       ELSE IF ~CanBeReturned(borrowings[requestId].status)
         THEN Done("returnBook", requestId, "NotApproved")
       ELSE IF ~FindBookById(borrowings[requestId].bookId).found
         THEN Done("returnBook", Null, "BookNotFound")
       ELSE [IdleProc EXCEPT !.pc = "rt_updateRequest", !.call = "returnBook",
                             !.requestId = requestId,
                             !.bookId = borrowings[requestId].bookId,
                             !.returnDate = now]]
  /\ UNCHANGED <<books, borrowings, watchlist, notifications, background>>

\* step 4: updateRequest(requestId, {status: 'returned', returnDate})
RT_UpdateRequest(p) ==
  /\ proc[p].pc = "rt_updateRequest"
  /\ borrowings' = UpdateRequest(proc[p].requestId,
                     [status |-> "returned", returnDate |-> proc[p].returnDate])
  /\ proc' = [proc EXCEPT ![p].pc = "rt_updateBook", ![p].returnDate = Null]
  /\ UNCHANGED <<books, watchlist, notifications, background>>

\* step 5: updateBook(bookId, {isAvailable: true}, systemUser)
RT_UpdateBook(p) ==
  /\ proc[p].pc = "rt_updateBook"
  /\ IF ~IsAuthorized("Admin")
       THEN /\ Throw(p, "AccessDenied")
            /\ UNCHANGED books
     ELSE IF proc[p].bookId \notin DOMAIN books
       THEN /\ Throw(p, "UpdateFailed")
            /\ UNCHANGED books
       ELSE /\ books' = [books EXCEPT ![proc[p].bookId] =
                           UpdateBook(@, ReturnBookUpdate(@))]
            /\ Return(p)
  /\ UNCHANGED <<borrowings, watchlist, notifications, background>>

\* ------------------------------------------- bookController.updateBook (PUT)
\* a catalogue edit by a user: the proxy tests the role, then updateBook
\* writes the fields of the request body; here the body sets the counter
EditBook(role, bookId, availableQuantity) ==
  /\ IsAuthorized(role)
  /\ bookId \in DOMAIN books
  /\ books' = [books EXCEPT ![bookId] =
                 UpdateBook(@, [availableQuantity |-> availableQuantity])]
  /\ UNCHANGED <<borrowings, watchlist, notifications, proc, background>>

\* ------------------------------------ NotificationController.addToWatchlist
\* WatchlistService.isInWatchlist
IsInWatchlist(userId, bookId) ==
  \E w \in DOMAIN watchlist :
    watchlist[w].userId = userId /\ watchlist[w].bookId = bookId

\* the controller: findBookById, the test that the book is unavailable
AddToWatchlist(p, userId, bookId) ==
  /\ Free(p)
  /\ LET book == FindBookById(bookId)
     IN proc' = [proc EXCEPT ![p] =
          IF ~book.found
            THEN Done("addToWatchlist", Null, "BookNotFound")
          ELSE IF book.availableQuantity > 0
            THEN Done("addToWatchlist", Null, "BookAvailable")
          ELSE [IdleProc EXCEPT !.pc = "wl_isInWatchlist",
                                !.call = "addToWatchlist",
                                !.userId = userId, !.bookId = bookId]]
  /\ UNCHANGED <<books, borrowings, watchlist, notifications, background>>

\* WatchlistService.addToWatchlist: the entry found is returned
WL_IsInWatchlist(p) ==
  /\ proc[p].pc = "wl_isInWatchlist"
  /\ IF IsInWatchlist(proc[p].userId, proc[p].bookId)
       THEN proc' = [proc EXCEPT ![p] = Done("addToWatchlist", Null, "ok")]
       ELSE proc' = [proc EXCEPT ![p].pc = "wl_add"]
  /\ UNCHANGED <<books, borrowings, watchlist, notifications, background>>

\* WatchlistService.addToWatchlist: the entry is added
WL_Add(p) ==
  /\ proc[p].pc = "wl_add"
  /\ Len(watchlist) < MaxWatch
  /\ watchlist' = Append(watchlist,
                         [userId |-> proc[p].userId, bookId |-> proc[p].bookId])
  /\ proc' = [proc EXCEPT ![p] = Done("addToWatchlist", Null, "ok")]
  /\ UNCHANGED <<books, borrowings, notifications, background>>

\* ---------------------------------------------------- NotificationService
\* the first part of markAsRead and deleteNotification: the document is
\* read, then its existence and its userId are tested
OpenNotification(call, next, notificationId, userId) ==
  LET doc == FindNotification(notificationId)
  IN IF doc = {}
       THEN Done(call, Null, "NotificationNotFound")
     ELSE IF \E n \in doc : ~IsRecipient(n, userId)
       THEN Done(call, Null, "NotAuthorized")
     ELSE [IdleProc EXCEPT !.pc = next, !.call = call, !.userId = userId,
                           !.notificationId = notificationId]

\* markAsRead(notificationId, userId) up to the update
MarkAsRead(p, notificationId, userId) ==
  /\ Free(p)
  /\ proc' = [proc EXCEPT ![p] =
       OpenNotification("markAsRead", "mr_update", notificationId, userId)]
  /\ UNCHANGED <<books, borrowings, watchlist, notifications, background>>

\* markAsRead: docRef.update({ read: true }), which throws when the document
\* is gone
MR_Update(p) ==
  /\ proc[p].pc = "mr_update"
  /\ IF FindNotification(proc[p].notificationId) = {}
       THEN /\ Throw(p, "UpdateFailed")
            /\ UNCHANGED notifications
       ELSE /\ notifications' = MarkRead({proc[p].notificationId})
            /\ Return(p)
  /\ UNCHANGED <<books, borrowings, watchlist, background>>

\* markAllAsRead(userId) up to the batch: the query of the user's unread
\* notifications
MarkAllAsRead(p, userId) ==
  /\ Free(p)
  /\ proc' = [proc EXCEPT ![p] =
       [IdleProc EXCEPT !.pc = "ma_commit", !.call = "markAllAsRead",
                        !.userId = userId,
                        !.batch = {n.id : n \in {m \in notifications :
                                      m.userId = userId /\ ~m.read}}]]
  /\ UNCHANGED <<books, borrowings, watchlist, notifications, background>>

\* markAllAsRead: batch.commit(), all the updates or none when a document
\* is gone
MA_Commit(p) ==
  /\ proc[p].pc = "ma_commit"
  /\ IF \E id \in proc[p].batch : FindNotification(id) = {}
       THEN /\ Throw(p, "UpdateFailed")
            /\ UNCHANGED notifications
       ELSE /\ notifications' = MarkRead(proc[p].batch)
            /\ Return(p)
  /\ UNCHANGED <<books, borrowings, watchlist, background>>

\* deleteNotification(notificationId, userId) up to the delete
DeleteNotification(p, notificationId, userId) ==
  /\ Free(p)
  /\ proc' = [proc EXCEPT ![p] =
       OpenNotification("deleteNotification", "dn_delete", notificationId,
                        userId)]
  /\ UNCHANGED <<books, borrowings, watchlist, notifications, background>>

\* deleteNotification: docRef.delete()
DN_Delete(p) ==
  /\ proc[p].pc = "dn_delete"
  /\ notifications' = notifications \ FindNotification(proc[p].notificationId)
  /\ Return(p)
  /\ UNCHANGED <<books, borrowings, watchlist, background>>

\* ------------------------------------------- BookServiceProxy.deleteBook
\* the proxy tests the role, then BookService.deleteBook removes the document
DeleteBook(p, role, bookId) ==
  /\ Free(p)
  /\ IF ~IsAuthorized(role)
       THEN /\ proc' = [proc EXCEPT ![p] =
                 [Done("deleteBook", Null, "AccessDenied")
                    EXCEPT !.role = role, !.bookId = bookId]]
            /\ UNCHANGED books
       ELSE /\ books' = [b \in DOMAIN books \ {bookId} |-> books[b]]
            /\ proc' = [proc EXCEPT ![p] =
                 [Done("deleteBook", Null, "ok")
                    EXCEPT !.role = role, !.bookId = bookId]]
  /\ UNCHANGED <<borrowings, watchlist, notifications, background>>

\* ------------------------------------------------------ DueDateCheckerJob
\* the first part of checkDueDates, up to the query: now = new Date()
BeginScan(s, origin, now) ==
  [scans EXCEPT ![s] = [IdleScan EXCEPT !.pc = "query", !.origin = origin,
                                        !.now = now]]

\* the slot a new checkDueDates call takes
FirstFreeScan ==
  CHOOSE s \in ScanIds : FreeScan(s) /\ \A t \in 1..(s - 1) : ~FreeScan(t)

\* start(intervalMs)
Start(intervalMs, now) ==
  /\ IF ~CanStart(job)
       THEN UNCHANGED <<job, timers, scans>>
       ELSE /\ \E s \in ScanIds : FreeScan(s)
            /\ Cardinality(timers) < MaxTimers
            /\ scans' = BeginScan(FirstFreeScan, "start", now)
            /\ timers' = timers \cup {SetInterval(timers)}
            /\ job' = [isRunning |-> TRUE,
                       interval |-> SetInterval(timers),
                       checkIntervalMs |->
                         IF intervalMs # Null /\ intervalMs # 0
                           THEN intervalMs ELSE job.checkIntervalMs]
  /\ UNCHANGED <<library, notifications, observers, dispatch>>

\* stop()
Stop ==
  /\ job' = StopJob(job, timers).job
  /\ timers' = StopJob(job, timers).timers
  /\ UNCHANGED <<library, notifications, scans, observers, dispatch>>

\* a timer of setInterval fires: its callback calls checkDueDates
Tick(t, now) ==
  /\ t \in timers
  /\ \E s \in ScanIds : FreeScan(s)
  /\ scans' = BeginScan(FirstFreeScan, "timer", now)
  /\ UNCHANGED <<library, notifications, job, timers, observers, dispatch>>

\* checkNow()
CheckNow(now) ==
  /\ \E s \in ScanIds : FreeScan(s)
  /\ scans' = BeginScan(FirstFreeScan, "manual", now)
  /\ UNCHANGED <<library, notifications, job, timers, observers, dispatch>>

\* checkDueDates: findBorrowingsByStatus('approved'); an error of the query
\* is caught by the outer catch
SC_Query(s, fault) ==
  /\ scans[s].pc = "query"
  /\ LET activeLoans == FindBorrowingsByStatus("approved")
     IN scans' = [scans EXCEPT ![s] =
          IF fault
            THEN [@ EXCEPT !.pc = "done", !.aborted = TRUE]
          ELSE IF Len(activeLoans) = 0
            THEN [@ EXCEPT !.pc = "done"]
          ELSE [@ EXCEPT !.pc = "lookup", !.loans = activeLoans, !.i = 1]]
  /\ UNCHANGED <<library, notifications, job, timers, observers, dispatch>>

\* the loop body up to the call of notify: findBookById, findUserById, the
\* tests of the due date; fault: one of the two lookups throws
SC_Lookup(s, fault) ==
  /\ scans[s].pc = "lookup"
  /\ LET scan == scans[s]
         loan == scan.loans[scan.i]
         event == DueEvent(scan.now, loan)
     IN scans' = [scans EXCEPT ![s] =
          IF fault
            THEN OnLoanError([scan EXCEPT !.failed = @ \cup {scan.i}])
          ELSE IF ~FindBookById(loan.bookId).found \/ loan.userId \notin Members
            THEN NextLoan([scan EXCEPT !.failed = @ \cup {scan.i}])
          ELSE IF event.type = "none"
            THEN NextLoan([scan EXCEPT !.resolved = @ \cup {scan.i}])
          ELSE [scan EXCEPT !.pc = "notify",
                            !.resolved = @ \cup {scan.i},
                            !.events = Append(@, event)]]
  /\ UNCHANGED <<library, notifications, job, timers, observers, dispatch>>

\* await notify(...) ends: the observer created the notification, or it
\* caught the error of createNotification, or notify rejected
SC_Notified(s, outcome) ==
  /\ scans[s].pc = "notify"
  /\ LET scan == scans[s]
         loan == scan.loans[scan.i]
         event == scan.events[Len(scan.events)]
     IN \/ /\ outcome = "created"
           /\ Cardinality(notifications) < MaxNotifications
           /\ notifications' =
                CreateNotification(event.type, loan.userId, loan.bookId, Null)
           /\ scans' = [scans EXCEPT ![s] = NextLoan(scan)]
        \/ /\ outcome = "caught"
           /\ UNCHANGED notifications
           /\ scans' = [scans EXCEPT ![s] = NextLoan(scan)]
        \/ /\ outcome = "rejected"
           /\ UNCHANGED notifications
           /\ scans' = [scans EXCEPT ![s] =
                OnLoanError([scan EXCEPT !.failed = @ \cup {scan.i}])]
  /\ UNCHANGED <<library, job, timers, observers, dispatch>>

\* --------------------------------------------------- NotificationSubject
\* attach(type, observer)
Attach(type, observer) ==
  /\ observers' = [observers EXCEPT ![type] =
       [has |-> TRUE,
        set |-> IF observer \in Range(@.set) THEN @.set
                ELSE Append(@.set, observer)]]
  /\ UNCHANGED <<library, notifications, job, timers, scans, dispatch>>

\* detach(type, observer)
Detach(type, observer) ==
  /\ observers' = [observers EXCEPT ![type] =
       IF @.has
         THEN [@ EXCEPT !.set = SelectSeq(@, LAMBDA o : o # observer)]
         ELSE @]
  /\ UNCHANGED <<library, notifications, job, timers, scans, dispatch>>

\* notify(type, data) up to await Promise.all(promises): the loop calls
\* update on each observer of the type, in the order of the Set; an update
\* that throws ends the loop and rejects the promise of notify
Notify(type, userId, bookId) ==
  /\ dispatch.pc \in {"idle", "returned", "rejected"}
  /\ dispatch.pending = {}
  /\ LET set == observers[type].set
         call == [IdleDispatch EXCEPT !.type = type, !.registered = set,
                                      !.userId = userId, !.bookId = bookId]
     IN dispatch' =
          IF ~observers[type].has
            THEN [call EXCEPT !.pc = "returned"]
          ELSE IF InvokedBy(set) # set
                  \/ \E o \in Range(set) : Behaviour(o) = "throws"
            THEN [call EXCEPT !.pc = "rejected",
                              !.invoked = InvokedBy(set),
                              !.pending = {o \in Range(InvokedBy(set)) :
                                             Behaviour(o) # "throws"}]
          ELSE [call EXCEPT !.pc = "await", !.invoked = set,
                            !.pending = Range(set)]
  /\ UNCHANGED <<library, notifications, job, timers, scans, observers>>

\* the promise of an update settles; the observers of the application
\* create a notification (created) or catch the error of the creation
Settle(observer, created) ==
  /\ observer \in dispatch.pending
  /\ IF Behaviour(observer) = "rejects"
       THEN /\ dispatch' = [dispatch EXCEPT
                 !.pending = @ \ {observer},
                 !.pc = IF @ = "await" THEN "rejected" ELSE @]
            /\ UNCHANGED notifications
       ELSE /\ dispatch' = [dispatch EXCEPT
                 !.pending = @ \ {observer},
                 !.completed = @ \cup {observer}]
            /\ IF /\ observer \in AppObservers
                  /\ created
                  /\ Cardinality(notifications) < MaxNotifications
                 THEN notifications' =
                        CreateNotification(dispatch.type, dispatch.userId,
                                           dispatch.bookId, Null)
                 ELSE UNCHANGED notifications
  /\ UNCHANGED <<library, job, timers, scans, observers>>

\* Promise.all resolves once every promise has: notify returns
NotifyReturns ==
  /\ dispatch.pc = "await"
  /\ dispatch.pending = {}
  /\ dispatch' = [dispatch EXCEPT !.pc = "returned"]
  /\ UNCHANGED <<library, notifications, job, timers, scans, observers>>

\* -------------------------------------------------------------------- Next
\* the inputs of the calls
UserArgs == Members \cup {UnknownId}
\* books are not removed from the catalogue here
BookArgs == Books
RequestArgs == 1..MaxRequests
\* libraryController.reviewRequest lets no other action through
ActionArgs == {"approve", "reject"}
DueArgs == {Null}
\* the roles of the users who review: an Admin passes the same tests as a
\* Librarian
ReviewerRoles == {"Member", "Librarian"}

\* a step of a facade call on worker p
FacadeStep(p) ==
    \/ \E u \in UserArgs, b \in BookArgs : RequestBook(p, u, b)
    \/ RB_HasPending(p)
    \/ RB_Create(p)
    \/ \E role \in ReviewerRoles, r \in RequestArgs, a \in ActionArgs, d \in DueArgs :
         ReviewRequest(p, role, r, a, d)
    \/ RV_Reject(p)
    \/ \E now \in Times : RV_FindBook(p, now)
    \/ RV_UpdateRequest(p)
    \/ RV_UpdateBook(p)
    \/ \E r \in RequestArgs, now \in Times : ReturnBook(p, r, now)
    \/ RT_UpdateRequest(p)
    \/ RT_UpdateBook(p)

Next == \E p \in Procs : FacadeStep(p)

Spec == Init /\ [][Next]_vars

\* one facade call at a time, and the catalogue edits of the staff, which
\* may fall between two steps of a call
EditRoles == {"Librarian", "Admin"}

CatalogueEdit ==
  \E role \in EditRoles, b \in Books, q \in 0..MaxCopies : EditBook(role, b, q)

NextEdit ==
  \/ FacadeStep("w1")
  \/ CatalogueEdit

SpecEdit == Init /\ [][NextEdit]_vars

\* one call at a time, facade or watchlist, and the catalogue edits
WatchStep(p) ==
  \/ \E u \in Members, b \in Books : AddToWatchlist(p, u, b)
  \/ WL_IsInWatchlist(p)
  \/ WL_Add(p)

NextWatch ==
  \/ FacadeStep("w1")
  \/ WatchStep("w1")
  \/ CatalogueEdit

SpecWatch == Init /\ [][NextWatch]_vars

\* two staff members approve two pending requests for the same single book
\* at the same time
InitApprove ==
  /\ books \in [Books -> {NewBookData(t) : t \in 1..MaxCopies}]
  /\ borrowings = <<NewBorrowingData(1, 1), NewBorrowingData(2, 1)>>
  /\ watchlist = <<>>
  /\ notifications = {}
  /\ proc = [p \in Procs |-> IdleProc]
  /\ InitBackground

RequestOf(p) == IF p = "w1" THEN 1 ELSE 2

\* the returnDueDate of the request body: absent, a date, or not a date
ApproveDueArgs == {Null, Malformed} \cup Times

ApproveStep(p) ==
  \/ /\ proc[p].pc = "idle"
     /\ \E role \in EditRoles, d \in ApproveDueArgs :
          ReviewRequest(p, role, RequestOf(p), "approve", d)
  \/ \E now \in Times : RV_FindBook(p, now)
  \/ RV_UpdateRequest(p)
  \/ RV_UpdateBook(p)

NextApprove == \E p \in Procs : ApproveStep(p)

SpecApprove == InitApprove /\ [][NextApprove]_vars

\* the watchlist calls of two users at a time, and the catalogue edits
NextWatchers ==
  \/ \E p \in Procs : WatchStep(p)
  \/ CatalogueEdit

SpecWatchers == Init /\ [][NextWatchers]_vars

\* one facade call at a time, and the deletions of books by any user
DeleteStep(p) == \E role \in Roles, b \in Books : DeleteBook(p, role, b)

NextDelete ==
  \/ FacadeStep("w1")
  \/ DeleteStep("w1")

SpecDelete == Init /\ [][NextDelete]_vars

\* one facade call at a time, while another user deletes books
NextDeleteRace ==
  \/ FacadeStep("w1")
  \/ DeleteStep("w2")

SpecDeleteRace == Init /\ [][NextDeleteRace]_vars

\* a book as reviewRequest leaves it after an approval
ApprovedBook(totalQuantity) ==
  UpdateBook(NewBookData(totalQuantity),
             ApproveBookUpdate(NewBookData(totalQuantity)))

\* request 1, of member 2, has been approved; request 2, of member 1, for
\* the same book, waits for a review
InitApproveReturn ==
  /\ books \in [Books -> {ApprovedBook(t) : t \in 1..MaxCopies}]
  /\ borrowings =
       <<[NewBorrowingData(2, 1) EXCEPT !.status = "approved",
                                        !.approvalDate = 1,
                                        !.dueDate = ComputeDueDate(1, Null)],
         NewBorrowingData(1, 1)>>
  /\ watchlist = <<>>
  /\ notifications = {}
  /\ proc = [p \in Procs |-> IdleProc]
  /\ InitBackground

\* the one call of a worker: the approval of request 2 or the return of
\* request 1
ApproveReturnStep(p) ==
  \/ /\ proc[p].pc = "idle"
     /\ \E role \in EditRoles, d \in ApproveDueArgs :
          ReviewRequest(p, role, 2, "approve", d)
  \/ \E now \in Times : RV_FindBook(p, now)
  \/ RV_UpdateRequest(p)
  \/ RV_UpdateBook(p)
  \/ /\ proc[p].pc = "idle"
     /\ \E now \in Times : ReturnBook(p, 1, now)
  \/ RT_UpdateRequest(p)
  \/ RT_UpdateBook(p)

NextApproveReturn == \E p \in Procs : ApproveReturnStep(p)

SpecApproveReturn == InitApproveReturn /\ [][NextApproveReturn]_vars

\* the due date of the loans of a scan: three days after the first instant
DueAt == 3 * DayMs

\* a loan in progress or returned, whose due date a librarian supplied
ScanLoan(r, status, dueDate) ==
  [userId |-> ((r - 1) % NumMembers) + 1,
   bookId |-> ((r - 1) % NumBooks) + 1,
   status |-> status, approvalDate |-> 1, dueDate |-> dueDate,
   returnDate |-> IF status = "returned" THEN 1 ELSE Null]

\* the due dates of request r: a date, half a day later for each request,
\* or the NaN a malformed returnDueDate leaves
ScanDueDates(r) == {DueAt + (r - 1) * (DayMs \div 2), NaN}

\* the requests have been approved, some returned; the job is not started
InitScan ==
  /\ books \in [Books -> {NewBookData(t) : t \in 1..MaxCopies}]
  /\ borrowings \in [1..MaxRequests ->
                       UNION {{ScanLoan(r, st, d) :
                                 st \in {"approved", "returned"},
                                 d \in ScanDueDates(r)} : r \in 1..MaxRequests}]
  /\ \A r \in 1..MaxRequests :
       borrowings[r].dueDate \in ScanDueDates(r)
         /\ borrowings[r].userId = ((r - 1) % NumMembers) + 1
  /\ watchlist = <<>>
  /\ notifications = {}
  /\ proc = [p \in Procs |-> IdleProc]
  /\ InitBackground

LookupFaults == BOOLEAN

NotifyOutcomes == {"created", "caught", "rejected"}

\* a step of a checkDueDates call
ScanStep(s) ==
  \/ \E fault \in BOOLEAN : SC_Query(s, fault)
  \/ \E fault \in LookupFaults : SC_Lookup(s, fault)
  \/ \E outcome \in NotifyOutcomes : SC_Notified(s, outcome)

\* one scan, asked for by checkNow, while an administrator deletes books
NextScan ==
  \/ /\ \A s \in ScanIds : scans[s].pc = "idle"
     /\ \E now \in ScanTimes : CheckNow(now)
  \/ \E s \in ScanIds : ScanStep(s)
  \/ \E b \in Books : DeleteBook("w1", "Admin", b)

SpecScan == InitScan /\ [][NextScan]_vars

\* a loan of member 1 is in progress, due at DueAt
InitJob ==
  /\ books \in [Books -> {NewBookData(t) : t \in 1..MaxCopies}]
  /\ borrowings = <<ScanLoan(1, "approved", DueAt)>>
  /\ watchlist = <<>>
  /\ notifications = {}
  /\ proc = [p \in Procs |-> IdleProc]
  /\ InitBackground

\* the instant of the scans: three days after the due date
JobTimes == {DueAt + 3 * DayMs}

\* start() of the server, and start(intervalMs) with an hour
IntervalArgs == {Null, DayMs \div 24}

\* the life of the job: start, stop, the timer, and the scans they launch
NextJob ==
  \/ \E i \in IntervalArgs, now \in JobTimes : Start(i, now)
  \/ Stop
  \/ \E t \in 1..MaxTimers, now \in JobTimes : Tick(t, now)
  \/ \E s \in ScanIds : ScanStep(s)

SpecJob == InitJob /\ [][NextJob]_vars

\* the instants of repeated scans: a day before the due date, and three
\* days after it
RescanTimes == {DueAt - DayMs, DueAt + 3 * DayMs}

\* scans asked for again and again while the loan of InitJob goes on
NextRescan ==
  \/ \E now \in RescanTimes : CheckNow(now)
  \/ \E s \in ScanIds : ScanStep(s)

SpecRescan == InitJob /\ [][NextRescan]_vars

\* the ids of the requests on notifications: those of documents, and one
\* more
NotificationArgs == 1..MaxNotifications

\* a step of a call of the notification service
InboxStep(p) ==
  \/ \E id \in NotificationArgs, u \in Members : MarkAsRead(p, id, u)
  \/ MR_Update(p)
  \/ \E u \in Members : MarkAllAsRead(p, u)
  \/ MA_Commit(p)
  \/ \E id \in NotificationArgs, u \in Members : DeleteNotification(p, id, u)
  \/ DN_Delete(p)

\* two loans are overdue, one of each of two members, and a scan has
\* created the OVERDUE notification of each
InitInbox ==
  /\ books \in [Books -> {NewBookData(t) : t \in 1..MaxCopies}]
  /\ borrowings = <<ScanLoan(1, "approved", DueAt),
                    ScanLoan(2, "approved", DueAt)>>
  /\ watchlist = <<>>
  /\ notifications =
       {NewNotification(r, "OVERDUE", ScanLoan(r, "approved", DueAt).userId,
                        ScanLoan(r, "approved", DueAt).bookId, Null) :
          r \in 1..2}
  /\ proc = [p \in Procs |-> IdleProc]
  /\ InitBackground

\* the members read and delete notifications while one more scan, that
\* meets no error, creates new ones
NextInbox ==
  \/ \E now \in {t \in JobTimes : \A s \in ScanIds : scans[s].pc = "idle"} :
       CheckNow(now)
  \/ \E s \in ScanIds :
       \/ SC_Query(s, FALSE)
       \/ SC_Lookup(s, FALSE)
       \/ SC_Notified(s, "created")
  \/ \E p \in Procs : InboxStep(p)

SpecInbox == InitInbox /\ [][NextInbox]_vars

\* the types notify is called with: one with an observer of the
\* application, one that has none
NotifyTypeArgs == {"OVERDUE", "NEW_REQUEST"}

\* the subject: observers come and go, one notify call at a time
NextNotify ==
  \/ \E t \in NotifyTypeArgs, o \in OtherObservers : Attach(t, o)
  \/ \E t \in NotifyTypeArgs, o \in OtherObservers : Detach(t, o)
  \/ \E t \in NotifyTypeArgs : Notify(t, 1, 1)
  \/ \E o \in AppObservers \cup OtherObservers, created \in BOOLEAN :
       Settle(o, created)
  \/ NotifyReturns

SpecNotify == Init /\ [][NextNotify]_vars

\* ------------------------------------------------------------ properties
\* the call of p has returned
Returned(p, call) ==
  proc[p].pc = "done" /\ proc[p].call = call /\ proc[p].result \in Success

\* the requests of a borrower for a book that wait for a review
PendingRequests(userId, bookId) ==
  {r \in DOMAIN borrowings : /\ borrowings[r].userId = userId
                             /\ borrowings[r].bookId = bookId
                             /\ borrowings[r].status = "pending"}

\* C1: for every book, in every state reached by request creations,
\* approvals, rejections and returns in any interleaving, the stored counter
\* satisfies 0 <= availableQuantity <= totalQuantity.
C1_CounterInRange ==
  \A b \in Books :
    /\ 0 <= books[b].availableQuantity
    /\ books[b].availableQuantity <= books[b].totalQuantity

\* a request has been approved and its book returned
C1_Witness ==
  \E p \in Procs :
    /\ Returned(p, "returnBook")
    /\ borrowings[proc[p].requestId].status = "returned"

\* C2: with k copies available and m > k concurrent approvals of m distinct
\* pending requests for the book, once all the calls have ended exactly k
\* have succeeded, m - k have failed with a Conflict error and the counter
\* is 0.
C2_ExactlyKApprovals ==
  (\A p \in Procs : proc[p].pc = "done") =>
    /\ Cardinality({p \in Procs : proc[p].result = "approved"})
         = books[1].totalQuantity
    /\ Cardinality({p \in Procs : proc[p].result \in ConflictErrors})
         = Cardinality(Procs) - books[1].totalQuantity
    /\ books[1].availableQuantity = 0

\* C3: in every state, also under concurrent requestBook calls, a borrower
\* has at most one pending request for a book.
C3_AtMostOnePending ==
  \A u \in Members, b \in Books : Cardinality(PendingRequests(u, b)) <= 1

\* C4: a requestBook call that finds a pending request of the same borrower
\* for the same book fails with a Conflict error and creates no request.
C4_SecondRequestFails ==
  [][\A p \in Procs :
       ( /\ proc[p].pc = "rb_hasPending"
         /\ proc'[p] # proc[p]
         /\ PendingRequests(proc[p].userId, proc[p].bookId) # {} )
       => /\ proc'[p].pc = "done"
          /\ proc'[p].result = "DuplicatePending"
          /\ proc'[p].result \in ConflictErrors
          /\ borrowings' = borrowings]_vars

\* a second request has failed while the first one is still pending
C4_Witness ==
  \E p \in Procs :
    /\ proc[p].pc = "done"
    /\ proc[p].call = "requestBook"
    /\ proc[p].result = "DuplicatePending"
    /\ \E u \in Members, b \in Books : PendingRequests(u, b) # {}

\* C5: an approval that finds the counter of the book at 0 fails with a
\* Conflict error and leaves the request pending (it is not rejected).
C5_ApproveWithoutCopyFails ==
  [][\A p \in Procs :
       ( /\ proc[p].pc = "rv_findBook"
         /\ proc'[p] # proc[p]
         /\ books[proc[p].bookId].availableQuantity = 0 )
       => /\ proc'[p].pc = "done"
          /\ proc'[p].result \in ConflictErrors
          /\ borrowings' = borrowings
          /\ borrowings'[proc[p].requestId].status = "pending"]_vars

\* an approval has failed for want of a copy and its request is pending
C5_Witness ==
  \E p \in Procs :
    /\ proc[p].pc = "done"
    /\ proc[p].call = "reviewRequest"
    /\ proc[p].result = "BookJustBorrowed"
    /\ borrowings[proc[p].requestId].status = "pending"
    /\ books[borrowings[proc[p].requestId].bookId].availableQuantity = 0

\* C6: the step that ends a successful approval leaves the request approved
\* and the counter of the book one below the value the approval read.
C6_ApproveDecrements ==
  [][\A p \in Procs :
       ( /\ proc[p].pc = "rv_updateBook"
         /\ proc'[p].pc = "done"
         /\ proc'[p].result = "approved" )
       => /\ borrowings'[proc[p].requestId].status = "approved"
          /\ books'[proc[p].bookId].availableQuantity
               = proc[p].availableQuantity - 1]_vars

\* C7: a returnBook call on a request that has been returned fails with a
\* Conflict error and changes neither the requests nor the books.
C7_SecondReturnFails ==
  [][\A p \in Procs, r \in DOMAIN borrowings :
       ( /\ Free(p)
         /\ proc'[p] # proc[p]
         /\ proc'[p].call = "returnBook"
         /\ proc'[p].requestId = r
         /\ borrowings[r].status = "returned" )
       => /\ proc'[p].pc = "done"
          /\ proc'[p].result = "NotApproved"
          /\ proc'[p].result \in ConflictErrors
          /\ borrowings' = borrowings
          /\ books' = books]_vars

\* a first return has succeeded and a second one has failed
C7_Witness ==
  \E p, q \in Procs :
    /\ Returned(p, "returnBook")
    /\ proc[q].pc = "done"
    /\ proc[q].call = "returnBook"
    /\ proc[q].result = "NotApproved"
    /\ proc[q].requestId = proc[p].requestId
    /\ borrowings[proc[p].requestId].status = "returned"

\* C8: once a request has been approved and then returned, the counter of
\* its book is the one the approval read.
C8_RoundTrip ==
  \A p, q \in Procs :
    ( /\ Returned(p, "reviewRequest")
      /\ proc[p].result = "approved"
      /\ Returned(q, "returnBook")
      /\ proc[q].requestId = proc[p].requestId )
    => books[borrowings[proc[p].requestId].bookId].availableQuantity
         = proc[p].availableQuantity

\* an approval and the return of the same request have both succeeded
C8_Witness ==
  \E p, q \in Procs :
    /\ Returned(p, "reviewRequest")
    /\ proc[p].result = "approved"
    /\ Returned(q, "returnBook")
    /\ proc[q].requestId = proc[p].requestId
    /\ borrowings[proc[p].requestId].status = "returned"

\* C9: when a return succeeds on a book whose counter is 0 and that a
\* borrower watches, a BOOK_AVAILABLE notification exists for the borrower
\* afterwards and the borrower's watchlist entry for the book is gone.
C9_RestockNotifiesWatchers ==
  [][\A p \in Procs, w \in Members :
       ( /\ proc[p].pc = "rt_updateBook"
         /\ proc'[p].pc = "done"
         /\ proc'[p].result = "ok"
         /\ books[proc[p].bookId].availableQuantity = 0
         /\ IsInWatchlist(w, proc[p].bookId) )
       => /\ \E n \in notifications' :
               /\ n.type = "BOOK_AVAILABLE"
               /\ n.userId = w
               /\ n.bookId = proc[p].bookId
          /\ ~\E e \in DOMAIN watchlist' :
               /\ watchlist'[e].userId = w
               /\ watchlist'[e].bookId = proc[p].bookId]_vars

\* C10: the status of a request only changes from pending to approved, from
\* pending to rejected and from approved to returned.
C10_LegalTransitions ==
  [][\A r \in DOMAIN borrowings :
       borrowings'[r].status # borrowings[r].status
       => <<borrowings[r].status, borrowings'[r].status>> \in
            {<<"pending", "approved">>, <<"pending", "rejected">>,
             <<"approved", "returned">>}]_vars

\* the events a scan has emitted for the loan at position k of its list
EventsOf(s, k) ==
  {e \in DOMAIN scans[s].events :
     scans[s].events[e].requestId = scans[s].loans[k].id}

\* the checkDueDates calls that begin in this step, by what called them
NewScans(origin) ==
  {s \in ScanIds : /\ scans'[s] # scans[s]
                   /\ scans'[s].pc = "query"
                   /\ scans'[s].origin = origin}

\* the recipients of a NEW_REQUEST event: the librarians
Staff == {NumMembers + 1}

\* C11: in a scan, for every approved request whose book and borrower were
\* found: if now > dueDate exactly one OVERDUE event is emitted, with
\* daysOverdue the whole number of days in now - dueDate; otherwise, if the
\* whole number of days in dueDate - now is 0, 1 or 2, exactly one
\* DUE_DATE_REMINDER event is emitted; otherwise none is.
C11_ScanEvents ==
  \A s \in ScanIds : \A k \in scans[s].resolved :
    LET now == scans[s].now
        due == scans[s].loans[k].dueDate
        events == scans[s].events
    IN IF due # NaN /\ now > due
         THEN /\ Cardinality(EventsOf(s, k)) = 1
              /\ \A e \in EventsOf(s, k) :
                   /\ events[e].type = "OVERDUE"
                   /\ events[e].daysOverdue * DayMs <= now - due
                   /\ now - due < (events[e].daysOverdue + 1) * DayMs
       ELSE IF due # NaN /\ \E d \in 0..2 :
                 d * DayMs <= due - now /\ due - now < (d + 1) * DayMs
         THEN /\ Cardinality(EventsOf(s, k)) = 1
              /\ \A e \in EventsOf(s, k) : events[e].type = "DUE_DATE_REMINDER"
       ELSE EventsOf(s, k) = {}

\* a scan three days after a due date has emitted OVERDUE with daysOverdue
\* 3 for that request, and OVERDUE with daysOverdue 2 for a request due two
\* days and a half before
C11_Witness ==
  \E s \in ScanIds : \E k, j \in scans[s].resolved :
    /\ scans[s].pc = "done"
    /\ scans[s].now = scans[s].loans[k].dueDate + 3 * DayMs
    /\ \E e \in EventsOf(s, k) :
         /\ scans[s].events[e].type = "OVERDUE"
         /\ scans[s].events[e].daysOverdue = 3
    /\ scans[s].now - scans[s].loans[j].dueDate = 2 * DayMs + DayMs \div 2
    /\ \E e \in EventsOf(s, j) : scans[s].events[e].daysOverdue = 2

\* C12: the write of a successful approval sets the status to approved,
\* approvalDate to the time of the approval, and dueDate to the supplied
\* due date when one is supplied and to approvalDate + 14 days when none is.
C12_ApprovalDates ==
  [][\A p \in Procs :
       ( /\ proc[p].pc = "rv_updateRequest"
         /\ proc'[p].pc = "rv_updateBook" )
       => LET r == borrowings'[proc[p].requestId]
          IN /\ r.status = "approved"
             /\ r.approvalDate = proc[p].approvalDate
             /\ r.approvalDate \in Times
             /\ (proc[p].returnDueDate \in Times
                  => r.dueDate = proc[p].returnDueDate)
             /\ (proc[p].returnDueDate = Null
                  => r.dueDate = r.approvalDate + 14 * 24 * 60 * 60 * 1000)]_vars

\* one request approved with the default due date and one with a supplied
\* due date
C12_Witness ==
  /\ \A r \in {1, 2} : borrowings[r].status = "approved"
  /\ \A p \in Procs : Returned(p, "reviewRequest")
  /\ borrowings[1].dueDate = borrowings[1].approvalDate + LoanDays * DayMs
  /\ borrowings[2].dueDate \in Times

\* C13: the step that ends a successful requestBook leaves the new request
\* pending and a NEW_REQUEST notification about it for every librarian.
C13_NewRequestNotifies ==
  [][\A p \in Procs :
       ( /\ proc[p].pc = "rb_create"
         /\ proc'[p].pc = "done"
         /\ proc'[p].result = "ok" )
       => /\ Len(borrowings') = Len(borrowings) + 1
          /\ borrowings'[Len(borrowings')].status = "pending"
          /\ \A l \in Staff : \E n \in notifications' :
               /\ n.type = "NEW_REQUEST"
               /\ n.userId = l
               /\ n.requestId = Len(borrowings')]_vars

\* C14: in a notify call, every observer registered for the type is
\* invoked whatever the others do, and the call does not reject.
C14_FailuresIsolated ==
  dispatch.pc # "idle" =>
    /\ Range(dispatch.invoked) = Range(dispatch.registered)
    /\ dispatch.pc # "rejected"

\* C15: once a notify call has returned to its caller, it has invoked every
\* observer registered for the type exactly once and no other, and every
\* update it invoked has completed; with no observer it has invoked none.
C15_AllCompleteBeforeReturn ==
  dispatch.pc \in {"returned", "rejected"} =>
    /\ Len(dispatch.invoked) = Len(dispatch.registered)
    /\ \A o \in Range(dispatch.registered) :
         Cardinality({k \in DOMAIN dispatch.invoked : dispatch.invoked[k] = o}) = 1
    /\ Range(dispatch.invoked) \subseteq Range(observers[dispatch.type].set)
         \cup Range(dispatch.registered)
    /\ dispatch.pending = {}
    /\ dispatch.completed = Range(dispatch.invoked)

\* C16: at most one interval timer is active; a step while the job runs
\* creates no timer and launches no scan of a start; a step that creates a
\* timer is taken while the job is not running, creates one timer, kept in
\* job.interval, and launches exactly one scan at once.
C16_SingleTimer ==
  /\ [](Cardinality(timers) <= 1)
  /\ [][ /\ job.isRunning =>
              (timers' \subseteq timers /\ NewScans("start") = {})
         /\ ~(timers' \subseteq timers) =>
              /\ ~job.isRunning
              /\ job'.isRunning
              /\ Cardinality(timers' \ timers) = 1
              /\ job'.interval \in timers'
              /\ Cardinality(NewScans("start")) = 1
         /\ NewScans("start") # {} => ~(timers' \subseteq timers) ]_vars

\* the job runs, its timer has fired and the scan of the start has ended
C16_Witness ==
  /\ job.isRunning
  /\ Cardinality(timers) = 1
  /\ \E s, t \in ScanIds :
       /\ scans[s].origin = "start" /\ scans[s].pc = "done"
       /\ scans[t].origin = "timer"

\* C17: a scan of the timer only begins while the job runs with its timer
\* active; while the job is not running no timer is left; stop changes
\* nothing when the job is not running, and a second stop changes nothing.
C17_StopCancels ==
  /\ [][NewScans("timer") # {} =>
          (job.isRunning /\ job.interval \in timers)]_vars
  /\ [](~job.isRunning => timers = {})
  /\ [](LET after == StopJob(job, timers)
        IN /\ StopJob(after.job, after.timers) = after
           /\ ~job.isRunning => after = [job |-> job, timers |-> timers]
           /\ after.timers = {})

\* the job has been stopped after its timer fired, and the scan the timer
\* launched is still in progress
C17_Witness ==
  /\ ~job.isRunning
  /\ job.interval = Null
  /\ \E s \in ScanIds :
       scans[s].origin = "timer" /\ scans[s].pc \in {"lookup", "notify"}

\* C18: a scan whose query succeeded ends only after it has examined every
\* request of its list, whatever failed on the others, and has emitted the
\* event of every request it resolved that is due for one.
C18_ScanContinues ==
  \A s \in ScanIds :
    (scans[s].pc = "done" /\ ~scans[s].aborted) =>
      /\ scans[s].resolved \cup scans[s].failed = DOMAIN scans[s].loans
      /\ \A k \in scans[s].resolved :
           DueEvent(scans[s].now, scans[s].loans[k]).type # "none"
             => EventsOf(s, k) # {}

\* a scan has ended, a request of its list failed and the event of a later
\* one was emitted
C18_Witness ==
  \E s \in ScanIds :
    /\ scans[s].pc = "done"
    /\ \E f \in scans[s].failed, k \in scans[s].resolved :
         f < k /\ EventsOf(s, k) # {} /\ f \notin scans[s].resolved

\* C19: in every state, also under concurrent addToWatchlist calls, the
\* watchlist has at most one entry for a user and a book.
C19_OneEntryPerPair ==
  \A u \in Members, b \in Books :
    Cardinality({w \in DOMAIN watchlist :
                   watchlist[w].userId = u /\ watchlist[w].bookId = b}) <= 1

\* C20: a deleteBook call by a Librarian or a Member has been refused with
\* an access-denied error.
C20_OnlyAdminDeletes ==
  \A p \in Procs :
    (proc[p].pc = "done" /\ proc[p].call = "deleteBook"
       /\ proc[p].role # "Admin")
      => proc[p].result = "AccessDenied"

\* the review calls on request r that have succeeded
SuccessfulReviews(r) ==
  {p \in Procs : /\ proc[p].pc = "done"
                 /\ proc[p].call = "reviewRequest"
                 /\ proc[p].requestId = r
                 /\ proc[p].result \in {"approved", "rejected"}}

\* the requests for book b that are loans in progress
ApprovedRequests(b) ==
  {r \in DOMAIN borrowings :
     borrowings[r].bookId = b /\ borrowings[r].status = "approved"}

\* C21: among the review calls on one request, issued one after the other
\* or at the same time, at most one succeeds.
C21_OneReviewSucceeds ==
  \A r \in DOMAIN borrowings : Cardinality(SuccessfulReviews(r)) <= 1

\* C22: an approval that fails, at the availability test or at the update
\* of the book, leaves the request pending with approvalDate and dueDate
\* unset.
C22_FailedApproveKeepsPending ==
  [][\A p \in Procs :
       ( /\ proc[p].pc \in {"rv_findBook", "rv_updateRequest", "rv_updateBook"}
         /\ proc'[p].pc = "done"
         /\ proc'[p].result \notin Success )
       => /\ borrowings'[proc[p].requestId].status = "pending"
          /\ borrowings'[proc[p].requestId].approvalDate = Null
          /\ borrowings'[proc[p].requestId].dueDate = Null]_vars

\* C23: once concurrent approvals and returns on requests for one book have
\* ended, the counter of the book is its initial value minus the number of
\* approvals that succeeded plus the number of returns that succeeded.
C23_ApproveReturnLinearizable ==
  (\A p \in Procs : proc[p].pc \in {"idle", "done"}) =>
    books[1].availableQuantity =
      books[1].totalQuantity
        - Cardinality({p \in Procs : proc[p].result = "approved"})
        + Cardinality({p \in Procs : Returned(p, "returnBook")})

\* the members that have a watchlist entry for book b
Watchers(b) ==
  {watchlist[e].userId : e \in {x \in DOMAIN watchlist : watchlist[x].bookId = b}}

\* C24: a return that succeeds on a book whose counter is 0 creates the
\* BOOK_AVAILABLE notifications of one dispatch, one for each watcher of
\* the book and no other, and leaves no watchlist entry for the book.
C24_RestockDispatchesOnce ==
  [][\A p \in Procs :
       ( /\ proc[p].pc = "rt_updateBook"
         /\ proc'[p].pc = "done"
         /\ proc'[p].result = "ok"
         /\ books[proc[p].bookId].availableQuantity = 0 )
       => LET b == proc[p].bookId
              sent == {n \in notifications' \ notifications :
                         n.type = "BOOK_AVAILABLE" /\ n.bookId = b}
          IN /\ {n.userId : n \in sent} = Watchers(b)
             /\ Cardinality(sent) = Cardinality(Watchers(b))
             /\ \A e \in DOMAIN watchlist' : watchlist'[e].bookId # b]_vars

\* C25: every scan emits one event for each request it resolves that is
\* overdue or in the reminder window, whatever earlier scans emitted and
\* whatever notifications exist already; and every notification a scan
\* creates is one more record.
C25_NoDeduplication ==
  /\ [](\A s \in ScanIds : \A k \in scans[s].resolved :
          LET due == DueTime(scans[s].loans[k].dueDate)
          IN ( /\ due # NaN
               /\ \/ scans[s].now > due
                  \/ (due - scans[s].now) \div DayMs \in 0..2 )
             => Cardinality(EventsOf(s, k)) = 1)
  /\ [][\A s \in ScanIds :
          ( /\ scans[s].pc = "notify"
            /\ scans'[s] # scans[s]
            /\ notifications' # notifications )
          => /\ notifications \subseteq notifications'
             /\ Cardinality(notifications') = Cardinality(notifications) + 1]_vars

\* two scans have ended, each emitted an event for the same loan, and the
\* borrower has two notifications of one type for the book
C25_Witness ==
  /\ \E s, t \in ScanIds :
       /\ s # t
       /\ scans[s].pc = "done" /\ scans[t].pc = "done"
       /\ 1 \in scans[s].resolved /\ 1 \in scans[t].resolved
       /\ EventsOf(s, 1) # {} /\ EventsOf(t, 1) # {}
       /\ scans[s].loans[1].id = scans[t].loans[1].id
  /\ \E n, m \in notifications :
       /\ n.id # m.id
       /\ n.type = m.type
       /\ n.userId = m.userId
       /\ n.bookId = m.bookId

\* C26: a start with no interval that starts the job schedules the scan
\* every 24 hours, whatever starts and stops came before.
C26_DefaultInterval ==
  [][\A now \in JobTimes :
       (CanStart(job) /\ Start(Null, now)) => job'.checkIntervalMs = DayMs]_vars

\* C27: in every step a notification that stays keeps all its fields, but
\* for read which may go from false to true; and a markAsRead or a
\* deleteNotification on a notification of another user ends with an error
\* and leaves every notification as it was.
C27_OnlyReadChanges ==
  [][/\ \A n \in notifications : \A m \in notifications' :
          n.id = m.id =>
            \/ m = n
            \/ ~n.read /\ m = [n EXCEPT !.read = TRUE]
     /\ \A p \in Procs :
          (Free(p) /\ proc'[p] # proc[p]) =>
            \A id \in NotificationArgs, u \in Members :
              ( /\ \E n \in notifications : n.id = id /\ n.userId # u
                /\ MarkAsRead(p, id, u) \/ DeleteNotification(p, id, u) )
              => /\ proc'[p].pc = "done"
                 /\ proc'[p].result = "NotAuthorized"
                 /\ notifications' = notifications]_vars

\* a markAsRead or a deleteNotification has failed for want of rights, on
\* a notification that is still there, and the recipient has read one
C27_Witness ==
  /\ \E p \in Procs :
       /\ proc[p].pc = "done"
       /\ proc[p].call \in {"markAsRead", "deleteNotification"}
       /\ proc[p].result = "NotAuthorized"
  /\ \E n \in notifications : n.read
  /\ \E n \in notifications : ~n.read

\* C28: for every book, whenever no approval or return is half done,
\* totalQuantity - availableQuantity is the number of approved requests
\* for the book.
C28_CopiesConserved ==
  (\A p \in Procs : Free(p)) =>
    \A b \in Books :
      books[b].totalQuantity - books[b].availableQuantity
        = Cardinality(ApprovedRequests(b))

\* C29: in every state the stored isAvailable field of a book is true
\* exactly when its availableQuantity is greater than 0.
C29_FlagAgreesWithCounter ==
  \A b \in DOMAIN books :
    books[b].isAvailable <=> (books[b].availableQuantity > 0)

\* C30: in every state a pending or rejected request has no approvalDate,
\* dueDate or returnDate; an approved request has approvalDate and dueDate
\* and no returnDate; a returned request has all three.
C30_DatesMatchStatus ==
  \A r \in DOMAIN borrowings :
    LET b == borrowings[r]
    IN /\ b.status \in {"pending", "rejected"} =>
            (b.approvalDate = Null /\ b.dueDate = Null /\ b.returnDate = Null)
       /\ b.status = "approved" =>
            (b.approvalDate # Null /\ b.dueDate # Null /\ b.returnDate = Null)
       /\ b.status = "returned" =>
            (b.approvalDate # Null /\ b.dueDate # Null /\ b.returnDate # Null)

TypeOK ==
  /\ \A b \in Books : books[b].totalQuantity \in 1..MaxCopies
  /\ Len(borrowings) <= MaxRequests
  /\ \A r \in DOMAIN borrowings : borrowings[r].status \in Statuses

====
